---- MODULE Spec2Model ----
(***************************************************************************)
(* Face-identity clustering of SnapVault-Backend: the local routes         *)
(* routes/photo.py (upload_photos, get_my_photos), routes/auth.py          *)
(* (register) and routes/user.py (delete_user) acting on the tables users, *)
(* faces, photos and photo_faces.                                          *)
(*                                                                         *)
(* A faces row carries the attributes the handlers read and write:         *)
(* id, embedding, embedding_count, user_id.  upload_photos never passes    *)
(* embedding_count, so rows it inserts hold NULL there; register reads it  *)
(* as "embedding_count or 1".                                              *)
(*                                                                         *)
(* Requests run concurrently against one shared database (several worker   *)
(* processes): a request's steps are its database round trips, and what a  *)
(* request read earlier (the list all_faces / orphan_faces) stays in its   *)
(* memory while other requests commit.                                     *)
(* The session factory (database.py) is not among the sources; the store   *)
(* is a database in which transactions of different workers may overlap    *)
(* and a commit makes a transaction's writes visible at once.              *)
(* The users that upload are members of the group with an uploading role.  *)
(*                                                                         *)
(* Embeddings are two-dimensional rational vectors n/d kept in lowest      *)
(* terms; the JSON text round trip json.dumps(x.tolist()) / json.loads is  *)
(* exact on them, so a row stores the vector itself.                       *)
(***************************************************************************)
EXTENDS Integers, Sequences, FiniteSets, Bags, TLC

\* ---------------------------------------------------------------- bounds
MaxRequests == 3
NumUsers == 1
GroupRequests == 4
GroupUsers == 3
MaxGroups == 1
AuthRequests == 4
NumTokens == 2

\* ------------------------------------------------------------- constants
NULL == 0
ThresholdNum == 6
ThresholdDen == 10
SuperAdmin == 1
Admin == 2
RestrictedViewer == 5

Uploads == 1..MaxRequests
Regs == 1..MaxRequests

\* ------------------------------------------------------------ embeddings
RECURSIVE Gcd(_, _)
Gcd(a, b) == IF b = 0 THEN a ELSE Gcd(b, a % b)

Abs(x) == IF x < 0 THEN 0 - x ELSE x

\* the greatest common divisor of d and the components of n
RECURSIVE GcdAll(_, _)
GcdAll(n, d) == IF n = <<>> THEN d ELSE GcdAll(Tail(n), Gcd(Abs(Head(n)), d))

\* the vector n/d in lowest terms
Vec(n, d) ==
    LET g == GcdAll(n, d)
    IN  [n |-> [i \in 1..Len(n) |-> n[i] \div g], d |-> d \div g]

\* len(embedding)
Dim(a) == Len(a.n)

\* what the detector can return for a face: unit-length directions scaled to
\* integers; E2 is 0.8 similar to E1 and exactly 0.6 similar to E3, E1 and E3
\* are orthogonal
E1 == Vec(<<5, 0>>, 1)
E2 == Vec(<<4, 3>>, 1)
E3 == Vec(<<0, 5>>, 1)

\* an embedding of another length, as a detector with another model returns
E4 == Vec(<<5, 0, 0>>, 1)
Embeddings == {E1, E2, E3}

VecAdd(a, b) ==
    Vec([i \in 1..Dim(a) |-> a.n[i] * b.d + b.n[i] * a.d], a.d * b.d)

VecScale(a, k) == Vec([i \in 1..Dim(a) |-> a.n[i] * k], a.d)

VecDiv(a, k) == Vec(a.n, a.d * k)

RECURSIVE DotTo(_, _, _)
DotTo(a, b, k) == IF k = 0 THEN 0 ELSE DotTo(a, b, k - 1) + a.n[k] * b.n[k]

Dot(a, b) == DotTo(a, b, Dim(a))

\* cosine_similarity([a], [b])[0][0] >= THRESHOLD, decided exactly:
\* dot/(|a||b|) >= 6/10  iff  dot >= 0 and 100 dot^2 >= 36 |a|^2 |b|^2;
\* a zero vector has similarity 0
SimAtLeastThreshold(a, b) ==
    /\ Dim(a) = Dim(b)
    /\ Dot(a, a) > 0
    /\ Dot(b, b) > 0
    /\ Dot(a, b) >= 0
    /\ ThresholdDen * ThresholdDen * Dot(a, b) * Dot(a, b)
         >= ThresholdNum * ThresholdNum * Dot(a, a) * Dot(b, b)

\* ------------------------------------------------------------------ state
VARIABLES
    users,          \* committed rows of table users: [id, email]
    faces,          \* committed rows of table faces, in store order
    photos,         \* committed rows of table photos: [id, uploader_id]
    photo_faces,    \* committed rows of table photo_faces, duplicates allowed
    files,          \* registrations whose profile picture file is on disk
    up,             \* the files received by upload_photos; the files of one
                    \* request follow each other and share .request
    reg,            \* register requests
    removed,        \* ids of deleted faces and photos (ids are not reused)
                    \* and the number of deletion requests served
    groups,         \* committed rows of table groups: their ids
    group_members,  \* committed rows of table group_members:
                    \* [id, user_id, group_id, role_id]
    gr,             \* the requests to the group routes
    revoked_tokens, \* committed rows of table revoked_tokens: the stored headers
    au              \* the requests that present an Authorization header

vars == <<users, faces, photos, photo_faces, files, up, reg, removed,
          groups, group_members, gr, revoked_tokens, au>>

\* the tables and requests of the face routes, and the others
faceVars == <<users, faces, photos, photo_faces, files, up, reg, removed>>

groupVars == <<groups, group_members, gr>>
authVars == <<revoked_tokens, au>>
otherVars == <<groupVars, authVars>>

IdleUpload ==
    [pc |-> "idle", request |-> NULL, user |-> NULL, fault |-> "none",
     photo |-> NULL, faces |-> <<>>, idx |-> 1,
     all_faces |-> <<>>, seen |-> 0, expired |-> FALSE, linked |-> <<>>,
     status |-> 0]

\* placeholder of a request that holds no embedding
NoEmbedding == Vec(<<0, 0>>, 1)

IdleReg ==
    [pc |-> "idle", email |-> NULL, n_faces |-> 0, new_embedding |-> NoEmbedding,
     uid |-> NULL,
     orphan_faces |-> <<>>, face |-> NULL, match_found |-> FALSE,
     status |-> 0, error |-> "none"]

GroupSlots == 1..GroupRequests

IdleGroupRequest ==
    [pc |-> "idle", op |-> "none", user |-> NULL, group |-> NULL,
     caller |-> NULL, target |-> NULL, target_role |-> NULL, role |-> NULL,
     status |-> 0]

AuthSlots == 1..AuthRequests

\* an Authorization header: a token sent with or without the 'Bearer ' prefix
Headers == [bearer : BOOLEAN, token : 1..NumTokens]

IdleAuthRequest ==
    [pc |-> "idle", op |-> "none", header |-> [bearer |-> FALSE, token |-> NULL],
     seen |-> {}, status |-> 0]

\* the tables after create_all, with the accounts that exist beforehand
Tables(n_users) ==
    /\ users = {[id |-> i, email |-> i] : i \in 1..n_users}
    /\ faces = <<>>
    /\ photos = <<>>
    /\ photo_faces = EmptyBag
    /\ files = {}
    /\ up = [u \in Uploads |-> IdleUpload]
    /\ reg = [r \in Regs |-> IdleReg]
    /\ removed = [faces |-> {}, photos |-> {}, n |-> 0]
    /\ groups = {}
    /\ group_members = {}
    /\ gr = [k \in GroupSlots |-> IdleGroupRequest]
    /\ revoked_tokens = {}
    /\ au = [k \in AuthSlots |-> IdleAuthRequest]

Init == Tables(NumUsers)

\* ---------------------------------------------------------------- helpers
\* the requests received so far
Started ==
    Cardinality({u \in Uploads : up[u].pc # "idle"})
      + Cardinality({r \in Regs : reg[r].pc # "idle"})

\* the requests served so far, deletions included
Requests == Started + removed.n

\* the next value of the autoincrement primary keys
NextFaceId == Len(faces) + Cardinality(removed.faces) + 1

NextPhotoId == Len(photos) + Cardinality(removed.photos) + 1

UserIds(us) == {x.id : x \in us}

Emails(us) == {x.email : x \in us}

\* variant: the most similar of the candidates that reach THRESHOLD
BestMatch(embedding, candidates) ==
    LET M == {i \in 1..Len(candidates) :
                 SimAtLeastThreshold(embedding, candidates[i].embedding)}
        Better(i, j) ==
            Dot(embedding, candidates[i].embedding) * Dot(embedding, candidates[i].embedding)
                * Dot(candidates[j].embedding, candidates[j].embedding)
              >= Dot(embedding, candidates[j].embedding) * Dot(embedding, candidates[j].embedding)
                   * Dot(candidates[i].embedding, candidates[i].embedding)
        B == {i \in M : \A j \in M : Better(i, j)}
    IN  IF M = {} THEN 0 ELSE CHOOSE i \in B : \A j \in B : i <= j

\* the first candidate, in list order, whose similarity reaches THRESHOLD
\* (the scan loops break on it); 0 when the loop ends without a match
FirstMatch(embedding, candidates) ==
    LET M == {i \in 1..Len(candidates) :
                 SimAtLeastThreshold(embedding, candidates[i].embedding)}
    IN  IF M = {} THEN 0 ELSE CHOOSE i \in M : \A j \in M : i <= j

\* a committed row with primary key id exists
Live(rows, id) == \E i \in 1..Len(rows) : rows[i].id = id

\* the committed row with primary key id
RowOf(rows, id) == rows[CHOOSE i \in 1..Len(rows) : rows[i].id = id]

\* the attributes of already loaded objects after the session's commit expired
\* them: each is loaded again from the committed row on its next access (the
\* load of a row deleted meanwhile fails, see LostRow)
Refresh(loaded, rows) ==
    [i \in 1..Len(loaded) |->
        IF Live(rows, loaded[i].id) THEN RowOf(rows, loaded[i].id) ELSE loaded[i]]

\* the scan or the commit of the match hits a row that was deleted after
\* all_faces was read: ObjectDeletedError when an expired object is loaded
\* before the scan reached a match, StaleDataError when the UPDATE of the
\* matched row finds no row; m is the scan's match, 0 for none
LostRow(loaded, rows, expired, m) ==
    \/ m # 0 /\ ~Live(rows, loaded[m].id)
    \/ /\ expired
       /\ \E i \in 1..Len(loaded) :
             ~Live(rows, loaded[i].id) /\ (m = 0 \/ i < m)

\* cosine_similarity([embedding], [existing_embedding]) raises ValueError
\* (incompatible dimension) when the two lengths differ: the scan raises when
\* it reaches a candidate of another length before it reaches a match
ScanRaises(embedding, candidates) ==
    \E i \in 1..Len(candidates) :
        /\ Dim(candidates[i].embedding) # Dim(embedding)
        /\ \A j \in 1..(i - 1) :
               ~SimAtLeastThreshold(embedding, candidates[j].embedding)

\* Face(user_id=None, embedding=...): no embedding_count is passed
NewUploadFace(id, embedding) ==
    [id |-> id, embedding |-> embedding, embedding_count |-> NULL, user_id |-> NULL]

\* new_embedding = (embedding + existing_embedding) / 2
MergeUpload(embedding, existing_embedding) ==
    VecDiv(VecAdd(embedding, existing_embedding), 2)

\* existing.embedding = ...; db.commit(): UPDATE faces SET embedding WHERE id
UpdateEmbedding(rows, id, new_embedding) ==
    [i \in 1..Len(rows) |->
        IF rows[i].id = id THEN [rows[i] EXCEPT !.embedding = new_embedding]
        ELSE rows[i]]

PhotoFace(photo_id, face_id) == [photo_id |-> photo_id, face_id |-> face_id]

\* ----------------------------------------------------------- upload_photos
\* variant: (photo_id, face_id) is unique, a second equal link is not stored
InsertLinkUnique(link_rows, link) ==
    IF BagIn(link, link_rows) THEN link_rows ELSE link_rows (+) SetToBag({link})

\* db.add(association); db.commit(): one more row, whatever rows exist
InsertLink(link_rows, link) == link_rows (+) SetToBag({link})

\* the photo rows committed so far for the files of request req
RequestPhotos(req) ==
    {up[v].photo : v \in {w \in Uploads : up[w].request = req /\ up[w].photo # NULL}}

\* variant: the request is one transaction, an error undoes its earlier files
RollbackRequest(photo_rows, photo_ids) ==
    SelectSeq(photo_rows, LAMBDA x : x.id \notin photo_ids)

\* raise HTTPException / an unhandled error: the session is closed; the rows
\* of the earlier files were committed on lines 112, 133, 138, 150 and 156 and
\* stay
Rollback(photo_rows, photo_ids) == photo_rows

\* variant: a photo in which no face is detected is refused like a bad file
UploadPhotoNeedsFace(u, req, usr, ext_ok, detected, fault) ==
    /\ up[u].pc = "idle"
    /\ \A v \in Uploads : v < u => up[v].pc # "idle"
    /\ Requests < MaxRequests
    /\ usr \in UserIds(users)
    /\ (~ext_ok \/ fault # "none") => detected = <<>>
    /\ ~ext_ok => fault = "none"
    /\ \/ req = u
       \/ /\ req < u
          /\ up[req].request = req
          /\ up[req].user = usr
          /\ \A v \in Uploads :
                (v < u /\ up[v].request = req) => (up[v].pc = "done" /\ up[v].status = 200)
    /\ IF ~ext_ok \/ fault = "storage" \/ (fault = "none" /\ detected = <<>>)
       THEN /\ up' = [up EXCEPT ![u] =
                        [@ EXCEPT !.pc = "done", !.request = req, !.user = usr,
                                  !.fault = IF ~ext_ok THEN "extension" ELSE fault,
                                  !.status = IF fault = "storage" THEN 500 ELSE 400]]
            /\ photos' = Rollback(photos, RequestPhotos(req))
       ELSE /\ photos' = Append(photos, [id |-> NextPhotoId, uploader_id |-> usr])
            /\ up' = [up EXCEPT ![u] =
                        IF fault = "detect"
                        THEN [@ EXCEPT !.pc = "done", !.request = req, !.user = usr,
                                       !.fault = fault,
                                       !.photo = NextPhotoId, !.status = 500]
                        ELSE [@ EXCEPT !.pc = IF detected = <<>> THEN "done" ELSE "faces",
                                       !.request = req,
                                       !.user = usr,
                                       !.photo = NextPhotoId,
                                       !.faces = detected,
                                       !.all_faces = IF detected = <<>> THEN <<>> ELSE faces,
                                       !.seen = Len(faces),
                                       !.status = IF detected = <<>> THEN 200 ELSE 0]]
    /\ UNCHANGED <<users, faces, photo_faces, files, reg, removed>>
    /\ UNCHANGED otherVars

\* One pass of "for file in files" up to line 120, for the first file of a
\* request (req = u, after the membership check, passed) or for the next file
\* of request req, whose earlier files were processed: the extension check,
\* the photo row and its commit, face detection and
\* all_faces = db.query(Face).all(); seen = len(all_faces).  fault is what
\* goes wrong: "storage" at the commit of the photo row, "detect" in
\* cv2.imread / face_app.get after it
UploadPhoto(u, req, usr, ext_ok, detected, fault) ==
    /\ up[u].pc = "idle"
    /\ \A v \in Uploads : v < u => up[v].pc # "idle"
    /\ Requests < MaxRequests
    /\ usr \in UserIds(users)
    /\ (~ext_ok \/ fault # "none") => detected = <<>>
    /\ ~ext_ok => fault = "none"
    /\ \/ req = u
       \/ /\ req < u
          /\ up[req].request = req
          /\ up[req].user = usr
          /\ \A v \in Uploads :
                (v < u /\ up[v].request = req) => (up[v].pc = "done" /\ up[v].status = 200)
    /\ IF ~ext_ok \/ fault = "storage"
       THEN /\ up' = [up EXCEPT ![u] =
                        [@ EXCEPT !.pc = "done", !.request = req, !.user = usr,
                                  !.fault = IF ~ext_ok THEN "extension" ELSE fault,
                                  !.status = IF ~ext_ok THEN 400 ELSE 500]]
            /\ photos' = Rollback(photos, RequestPhotos(req))
       ELSE /\ photos' = Append(photos, [id |-> NextPhotoId, uploader_id |-> usr])
            /\ up' = [up EXCEPT ![u] =
                        IF fault = "detect"
                        THEN [@ EXCEPT !.pc = "done", !.request = req, !.user = usr,
                                       !.fault = fault,
                                       !.photo = NextPhotoId, !.status = 500]
                        ELSE [@ EXCEPT !.pc = IF detected = <<>> THEN "done" ELSE "faces",
                                       !.request = req,
                                       !.user = usr,
                                       !.photo = NextPhotoId,
                                       !.faces = detected,
                                       !.all_faces = IF detected = <<>> THEN <<>> ELSE faces,
                                       !.seen = Len(faces),
                                       !.status = IF detected = <<>> THEN 200 ELSE 0]]
    /\ UNCHANGED <<users, faces, photo_faces, files, reg, removed>>
    /\ UNCHANGED otherVars

\* Lines 122-156, one pass of "for face in faces": scan all_faces, then either
\* average into the first match or insert a new face, and link the photo.
\* A row of all_faces deleted meanwhile ends the request with an error.  When
\* the photo itself was deleted meanwhile the face is committed first and the
\* link insert either violates the foreign key (fk) or stores a dangling row,
\* as the database enforces foreign keys or not
UploadFace(u, fk) ==
    /\ up[u].pc = "faces"
    /\ LET r == up[u]
           embedding == r.faces[r.idx]
           candidates == IF r.expired THEN Refresh(r.all_faces, faces) ELSE r.all_faces
           m == FirstMatch(embedding, candidates)
           face_id == IF m # 0 THEN candidates[m].id ELSE NextFaceId
           last == r.idx = Len(r.faces)
           photo_gone == ~Live(photos, r.photo)
       IN  IF LostRow(candidates, faces, r.expired, m) \/ ScanRaises(embedding, candidates)
           THEN /\ ~fk
                /\ up' = [up EXCEPT ![u] =
                            [@ EXCEPT !.pc = "done", !.status = 500, !.all_faces = <<>>]]
                /\ UNCHANGED <<faces, photo_faces>>
           ELSE /\ (fk => photo_gone)
                /\ faces' = IF m # 0
                            THEN UpdateEmbedding(faces, face_id,
                                     MergeUpload(embedding, candidates[m].embedding))
                            ELSE Append(faces, NewUploadFace(face_id, embedding))
                /\ IF fk
                   THEN /\ UNCHANGED photo_faces
                        /\ up' = [up EXCEPT ![u] =
                                    [@ EXCEPT !.pc = "done", !.status = 500,
                                              !.all_faces = <<>>]]
                   ELSE /\ photo_faces' = InsertLink(photo_faces, PhotoFace(r.photo, face_id))
                        /\ up' = [up EXCEPT ![u] =
                                    [@ EXCEPT !.idx = r.idx + 1,
                                              !.expired = TRUE,
                                              !.all_faces = IF last THEN <<>> ELSE r.all_faces,
                                              !.linked = Append(r.linked, face_id),
                                              !.pc = IF last THEN "done" ELSE "faces",
                                              !.status = IF last THEN 200 ELSE 0]]
    /\ UNCHANGED <<users, photos, files, reg, removed>>
    /\ UNCHANGED otherVars

\* ---------------------------------------------------------------- register
\* variant: an image with several faces is let through
FaceCountAtLeastOne(n) == n >= 1

\* "if len(faces) != 1" is the negation of this
FaceCountOK(n) == n = 1

\* variant: db.commit() in place of db.flush(), the user row is committed
\* before the identity step
FlushUserCommits(committed, new_user) == committed \cup {new_user}

\* db.add(new_user); db.flush() inside db.begin_nested(): the INSERT runs in
\* the open transaction and is not committed, the table other requests see is
\* unchanged
FlushUser(committed, new_user) == committed

\* count = face_record.embedding_count or 1
CountOrOne(embedding_count) == IF embedding_count = NULL THEN 1 ELSE embedding_count

\* updated_embedding = (stored_embedding * count + new_embedding) / (count + 1)
MergeRegister(stored_embedding, count, new_embedding) ==
    VecDiv(VecAdd(VecScale(stored_embedding, count), new_embedding), count + 1)

\* variant: the claim copies the Identity into a new row owned by the user
\* and leaves the orphan as it was
ClaimFaceAsCopy(rows, face_record, new_embedding, uid) ==
    Append(rows, [id |-> NextFaceId,
                  embedding |-> VecDiv(VecAdd(face_record.embedding, new_embedding), 2),
                  embedding_count |-> 2,
                  user_id |-> uid])

\* variant: the loop has no break, every similar orphan is claimed
ClaimFaceEverySimilar(rows, face_record, new_embedding, uid) ==
    [i \in 1..Len(rows) |->
        IF rows[i].user_id = NULL /\ SimAtLeastThreshold(new_embedding, rows[i].embedding)
        THEN [rows[i] EXCEPT
                 !.embedding = VecDiv(VecAdd(VecScale(rows[i].embedding,
                                   IF rows[i].embedding_count = NULL THEN 1
                                   ELSE rows[i].embedding_count), new_embedding),
                                   (IF rows[i].embedding_count = NULL THEN 1
                                    ELSE rows[i].embedding_count) + 1),
                 !.embedding_count = (IF rows[i].embedding_count = NULL THEN 1
                                      ELSE rows[i].embedding_count) + 1,
                 !.user_id = uid]
        ELSE rows[i]]

\* variant: line 138 is missing, the merge is written without the owner
ClaimFaceMergeOnly(rows, face_record, new_embedding, uid) ==
    [i \in 1..Len(rows) |->
        IF rows[i].id = face_record.id
        THEN [rows[i] EXCEPT
                 !.embedding = VecDiv(VecAdd(VecScale(face_record.embedding,
                                   IF face_record.embedding_count = NULL THEN 1
                                   ELSE face_record.embedding_count), new_embedding),
                                   (IF face_record.embedding_count = NULL THEN 1
                                    ELSE face_record.embedding_count) + 1),
                 !.embedding_count = (IF face_record.embedding_count = NULL THEN 1
                                      ELSE face_record.embedding_count) + 1]
        ELSE rows[i]]

\* lines 136-138 flushed by db.commit(): one UPDATE of the matched row
ClaimFace(rows, face_record, new_embedding, uid) ==
    [i \in 1..Len(rows) |->
        IF rows[i].id = face_record.id
        THEN [rows[i] EXCEPT
                 !.embedding = MergeRegister(face_record.embedding,
                                   CountOrOne(face_record.embedding_count), new_embedding),
                 !.embedding_count = CountOrOne(face_record.embedding_count) + 1,
                 !.user_id = uid]
        ELSE rows[i]]

\* variant: embedding_count is not passed, as in the upload path
NewUserFaceNoCount(id, embedding, uid) ==
    [id |-> id, embedding |-> embedding, embedding_count |-> NULL, user_id |-> uid]

\* Face(embedding=..., embedding_count=1, user_id=new_user.id)
NewUserFace(id, embedding, uid) ==
    [id |-> id, embedding |-> embedding, embedding_count |-> 1, user_id |-> uid]

\* variant: registration compares against every Identity, as the upload does
AllFaces(rows) == rows

\* orphan_faces = db.query(Face).filter(Face.user_id == None).all()
OrphanFaces(rows) == SelectSeq(rows, LAMBDA f : f.user_id = NULL)

\* the e-mail of a request: its own fresh address or one of an account that
\* existed before
RegEmails(r) == (1..NumUsers) \cup {NumUsers + r}

RegFail(r, code, err) ==
    [reg EXCEPT ![r] = [@ EXCEPT !.pc = "done", !.status = code, !.error = err,
                                 !.orphan_faces = <<>>]]

\* variant: "with db.begin_nested()", the user INSERT and the orphan query
\* come before face detection, which runs inside the open transaction
RegisterSaveInTransaction(r, email, ext_ok, detected) ==
    /\ reg[r].pc = "idle"
    /\ \A v \in Regs : v < r => reg[v].pc # "idle"
    /\ Requests < MaxRequests
    /\ IF email \in Emails(users) \/ ~ext_ok
       THEN /\ reg' = [reg EXCEPT ![r] =
                         [@ EXCEPT !.pc = "done", !.email = email, !.status = 400,
                                   !.error = "email or extension"]]
            /\ UNCHANGED files
       ELSE /\ files' = files \cup {r}
            /\ reg' = [reg EXCEPT ![r] =
                         [@ EXCEPT !.pc = IF Len(detected) = 1 THEN "scanned" ELSE "saved",
                                   !.email = email,
                                   !.n_faces = Len(detected),
                                   !.uid = IF Len(detected) = 1 THEN NumUsers + r ELSE NULL,
                                   !.orphan_faces = IF Len(detected) = 1
                                                    THEN SelectSeq(faces, LAMBDA f : f.user_id = NULL)
                                                    ELSE <<>>,
                                   !.new_embedding = IF Len(detected) = 1
                                                     THEN detected[1] ELSE NoEmbedding]]
    /\ UNCHANGED <<users, faces, photos, photo_faces, up, removed>>
    /\ UNCHANGED otherVars

\* Lines 77-99: e-mail and extension checks, the profile picture is written to
\* disk; the image determines what face_app.get returns
RegisterSave(r, email, ext_ok, detected) ==
    /\ reg[r].pc = "idle"
    /\ \A v \in Regs : v < r => reg[v].pc # "idle"
    /\ Requests < MaxRequests
    /\ IF email \in Emails(users) \/ ~ext_ok
       THEN /\ reg' = [reg EXCEPT ![r] =
                         [@ EXCEPT !.pc = "done", !.email = email, !.status = 400,
                                   !.error = "email or extension"]]
            /\ UNCHANGED files
       ELSE /\ files' = files \cup {r}
            /\ reg' = [reg EXCEPT ![r] =
                         [@ EXCEPT !.pc = "saved", !.email = email,
                                   !.n_faces = Len(detected),
                                   !.new_embedding = IF FaceCountOK(Len(detected))
                                                     THEN detected[1] ELSE NoEmbedding]]
    /\ UNCHANGED <<users, faces, photos, photo_faces, up, removed>>
    /\ UNCHANGED otherVars

\* Lines 101-125: the face-count check; then the savepoint, the user INSERT and
\* the query of the orphan faces
RegisterScan(r) ==
    /\ reg[r].pc = "saved"
    /\ IF ~FaceCountOK(reg[r].n_faces)
       THEN /\ files' = files \ {r}
            /\ reg' = RegFail(r, 400, "face count")
            /\ UNCHANGED users
       ELSE IF reg[r].email \in Emails(users)
       THEN \* IntegrityError on flush: except SQLAlchemyError, lines 153-158
            /\ files' = files \ {r}
            /\ reg' = RegFail(r, 500, "SQLAlchemyError")
            /\ UNCHANGED users
       ELSE /\ users' = FlushUser(users, [id |-> NumUsers + r, email |-> reg[r].email])
            /\ reg' = [reg EXCEPT ![r] =
                         [@ EXCEPT !.pc = "scanned", !.uid = NumUsers + r,
                                   !.orphan_faces = OrphanFaces(faces)]]
            /\ UNCHANGED files
    /\ UNCHANGED <<faces, photos, photo_faces, up, removed>>
    /\ UNCHANGED otherVars

\* Lines 127-161: the scan of orphan_faces, the claim or the new face, and
\* db.commit().  fault is what goes wrong meanwhile: "none", "SQLAlchemyError"
\* (caught on line 153: rollback, the file is removed) or "Exception" (any
\* other error inside the with block: the savepoint is rolled back, the error
\* leaves the handler)
RegisterCommit(r, fault) ==
    /\ reg[r].pc = "scanned"
    /\ LET new_embedding == reg[r].new_embedding
           m == FirstMatch(new_embedding, reg[r].orphan_faces)
           new_user == [id |-> reg[r].uid, email |-> reg[r].email]
           \* the matched row was deleted meanwhile: StaleDataError at commit
           stale == m # 0 /\ ~Live(faces, reg[r].orphan_faces[m].id)
           \* ValueError in the scan, before the commit is reached
           raises == ScanRaises(new_embedding, reg[r].orphan_faces)
       IN  IF fault = "SQLAlchemyError" \/ reg[r].email \in Emails(users)
                \/ (stale /\ ~raises)
           THEN /\ files' = files \ {r}
                /\ reg' = RegFail(r, 500, "SQLAlchemyError")
                /\ UNCHANGED <<users, faces>>
           ELSE IF fault = "Exception" \/ raises
           THEN /\ reg' = RegFail(r, 500, "Exception")
                /\ UNCHANGED <<users, faces, files>>
           ELSE /\ users' = users \cup {new_user}
                /\ faces' = IF m # 0
                            THEN ClaimFace(faces, reg[r].orphan_faces[m],
                                           new_embedding, reg[r].uid)
                            ELSE Append(faces, NewUserFace(NextFaceId,
                                                           new_embedding, reg[r].uid))
                /\ reg' = [reg EXCEPT ![r] =
                             [@ EXCEPT !.pc = "done", !.status = 200,
                                       !.orphan_faces = <<>>,
                                       !.match_found = (m # 0),
                                       !.face = IF m # 0 THEN reg[r].orphan_faces[m].id
                                                ELSE NextFaceId]]
                /\ UNCHANGED files
    /\ UNCHANGED <<photos, photo_faces, up, removed>>
    /\ UNCHANGED otherVars

\* -------------------------------------------------------------- delete_user
\* db.delete(current_user) with User.faces and User.uploaded_photos declared
\* without a delete cascade: the unit of work sets the foreign key of the
\* user's rows to NULL.  faces.user_id is nullable; photos.uploader_id is not,
\* so the flush fails and nothing is committed when the user uploaded a photo
OrphanFacesOf(rows, uid) ==
    [i \in 1..Len(rows) |->
        IF rows[i].user_id = uid THEN [rows[i] EXCEPT !.user_id = NULL] ELSE rows[i]]

DeleteUser(usr) ==
    /\ usr \in UserIds(users)
    /\ IF \E i \in 1..Len(photos) : photos[i].uploader_id = usr
       THEN UNCHANGED <<users, faces>>
       ELSE /\ users' = {x \in users : x.id # usr}
            /\ faces' = OrphanFacesOf(faces, usr)
    /\ UNCHANGED <<photos, photo_faces, files, up, reg, removed>>
    /\ UNCHANGED otherVars

\* ------------------------------------------------------ delete_user_account
\* the link rows that name one of the photos or one of the faces
LinksOf(link_rows, photo_ids, face_ids) ==
    {l \in BagToSet(link_rows) : l.photo_id \in photo_ids \/ l.face_id \in face_ids}

\* the rows whose id is not in ids
RowsWithout(rows, ids) == SelectSeq(rows, LAMBDA x : x.id \notin ids)

\* routes/supabase_user.py, DELETE /user/supabase_delete: the profile picture
\* file is removed first; then db.delete of the user's photos, of the user's
\* faces and of the user, committed together.  Photo.faces and Face.photos are
\* declared without a delete cascade, so the flush sets photo_id / face_id of
\* their link rows to NULL, which the NOT NULL columns refuse: when a photo or
\* a face of the user has a link row the request fails and is rolled back
DeleteAccount(usr) ==
    /\ Requests < MaxRequests
    /\ usr \in UserIds(users)
    /\ LET user_photos == {photos[i].id : i \in {j \in 1..Len(photos) :
                                                   photos[j].uploader_id = usr}}
           user_faces == {faces[i].id : i \in {j \in 1..Len(faces) :
                                                 faces[j].user_id = usr}}
       IN  /\ files' = files \ {r \in Regs : reg[r].uid = usr}
           /\ IF LinksOf(photo_faces, user_photos, user_faces) # {}
              THEN /\ removed' = [removed EXCEPT !.n = @ + 1]
                   /\ UNCHANGED <<users, faces, photos>>
              ELSE /\ users' = {x \in users : x.id # usr}
                   /\ faces' = RowsWithout(faces, user_faces)
                   /\ photos' = RowsWithout(photos, user_photos)
                   /\ removed' = [faces |-> removed.faces \cup user_faces,
                                  photos |-> removed.photos \cup user_photos,
                                  n |-> removed.n + 1]
    /\ UNCHANGED <<photo_faces, up, reg>>
    /\ UNCHANGED otherVars

\* ------------------------------------------------------------- delete_photo
\* the link rows left after those of photo photo_id were deleted
LinksWithoutPhoto(link_rows, photo_id) ==
    [l \in {x \in DOMAIN link_rows : x.photo_id # photo_id} |-> link_rows[l]]

\* variant: the Identities that appear in the photo are deleted with it
DeletePhotoWithFaces(photo_id) ==
    /\ Requests < MaxRequests
    /\ Live(photos, photo_id)
    /\ LET photo_face_ids == {l.face_id : l \in LinksOf(photo_faces, {photo_id}, {})}
       IN  /\ photo_faces' = [l \in {x \in DOMAIN photo_faces :
                                       x.photo_id # photo_id
                                         /\ x.face_id \notin photo_face_ids}
                                 |-> photo_faces[l]]
           /\ faces' = RowsWithout(faces, photo_face_ids)
           /\ photos' = RowsWithout(photos, {photo_id})
           /\ removed' = [faces |-> removed.faces \cup photo_face_ids,
                          photos |-> removed.photos \cup {photo_id},
                          n |-> removed.n + 1]
    /\ UNCHANGED <<users, files, up, reg>>
    /\ UNCHANGED otherVars

\* routes/supabase_photo.py, DELETE /photos/supabase_photo/{photo_id}, by the
\* uploader or a group admin: the photo's link rows and the photo row are
\* deleted and committed together
DeletePhoto(photo_id) ==
    /\ Requests < MaxRequests
    /\ Live(photos, photo_id)
    /\ photo_faces' = LinksWithoutPhoto(photo_faces, photo_id)
    /\ photos' = RowsWithout(photos, {photo_id})
    /\ removed' = [removed EXCEPT !.photos = @ \cup {photo_id}, !.n = @ + 1]
    /\ UNCHANGED <<users, faces, files, up, reg>>
    /\ UNCHANGED otherVars

\* ------------------------------------------------------------ get_my_photos
\* variant: the links are filtered by the user's id instead of the face's id
MyPhotosByUserId(face_rows, link_rows, photo_rows, uid) ==
    LET own == SelectSeq(face_rows, LAMBDA f : f.user_id = uid)
    IN  IF own = <<>>
        THEN [user |-> uid, status |-> 404, photos |-> {}]
        ELSE [user |-> uid, status |-> 200,
              photos |-> {photo_rows[i].id : i \in
                            {j \in 1..Len(photo_rows) :
                               BagIn([photo_id |-> photo_rows[j].id, face_id |-> uid],
                                     link_rows)}}]

\* face = db.query(Face).filter(Face.user_id == current_user.id).first();
\* 404 without one, else the photos whose id is in the face's links
MyPhotos(face_rows, link_rows, photo_rows, uid) ==
    LET own == SelectSeq(face_rows, LAMBDA f : f.user_id = uid)
    IN  IF own = <<>>
        THEN [user |-> uid, status |-> 404, photos |-> {}]
        ELSE [user |-> uid, status |-> 200,
              photos |-> {photo_rows[i].id : i \in
                            {j \in 1..Len(photo_rows) :
                               BagIn(PhotoFace(photo_rows[j].id, own[1].id), link_rows)}}]

\* ------------------------------------------------------------ specification
\* what face_app.get can return for one image: no face, one face, or two
\* faces (alike, unlike, or similar at the threshold)
Detections ==
    {<<>>, <<E1>>, <<E2>>, <<E3>>, <<E1, E1>>, <<E1, E3>>, <<E3, E2>>}

Faults == {"none", "SQLAlchemyError", "Exception"}

UploadFaults == {"none", "storage", "detect"}

\* what a file brings: a bad extension, a fault, or an image and its faces
UploadInputs ==
    {[ext_ok |-> FALSE, detected |-> <<>>, fault |-> "none"]}
      \cup {[ext_ok |-> TRUE, detected |-> <<>>, fault |-> f] : f \in UploadFaults \ {"none"}}
      \cup {[ext_ok |-> TRUE, detected |-> d, fault |-> "none"] : d \in Detections}

\* what a registration brings: a bad extension, or an image and its faces
RegInputs ==
    {[ext_ok |-> FALSE, detected |-> <<>>]}
      \cup {[ext_ok |-> TRUE, detected |-> d] : d \in Detections}

Next ==
    \/ \E u \in {v \in Uploads : up[v].pc = "idle"} :
          \E req \in 1..u, usr \in UserIds(users), i \in UploadInputs :
             UploadPhoto(u, req, usr, i.ext_ok, i.detected, i.fault)
    \/ \E u \in Uploads, fk \in BOOLEAN : UploadFace(u, fk)
    \/ \E r \in {q \in Regs : reg[q].pc = "idle"} :
          \E email \in RegEmails(r), i \in RegInputs :
             RegisterSave(r, email, i.ext_ok, i.detected)
    \/ \E r \in Regs : RegisterScan(r)
    \/ \E r \in Regs, fault \in Faults : RegisterCommit(r, fault)
    \/ \E usr \in UserIds(users) : DeleteUser(usr)
    \/ \E usr \in UserIds(users) : DeleteAccount(usr)
    \/ \E photo_id \in 1..MaxRequests : DeletePhoto(photo_id)

Spec == Init /\ [][Next]_vars

\* ============================================================ routes/group
\* Each handler is two steps: its queries and checks, then its write and
\* db.commit(); other requests may run in between.  A membership row keeps
\* the number of the request that inserted it as its id.
NoMember == [id |-> NULL, user_id |-> NULL, group_id |-> NULL, role_id |-> NULL]

\* db.query(GroupMember).filter_by(user_id=..., group_id=...).first()
FirstMember(rows, usr, g) ==
    LET found == {m \in rows : m.user_id = usr /\ m.group_id = g}
    IN  IF found = {} THEN NoMember
        ELSE CHOOSE m \in found : \A x \in found : m.id <= x.id

MemberLive(rows, id) == \E m \in rows : m.id = id

\* UPDATE group_members SET role_id = ... WHERE id = ...
SetRole(rows, id, role) ==
    {IF m.id = id THEN [m EXCEPT !.role_id = role] ELSE m : m \in rows}

GroupDone(k, code) == [gr EXCEPT ![k] = [@ EXCEPT !.pc = "done", !.status = code]]

GroupStart(k) ==
    /\ gr[k].pc = "idle"
    /\ \A j \in GroupSlots : j < k => gr[j].pc # "idle"

\* ------------------------------------------------------------ create_group
\* lines 24-40: db.add(new_group); db.commit() at line 35: the group row is
\* committed (a colliding invite code is drawn again and is left out)
CreateGroup(k, usr) ==
    /\ GroupStart(k)
    /\ usr \in UserIds(users)
    /\ Cardinality(groups) < MaxGroups
    /\ groups' = groups \cup {Cardinality(groups) + 1}
    /\ gr' = [gr EXCEPT ![k] = [@ EXCEPT !.pc = "created", !.op = "create", !.user = usr,
                                         !.group = Cardinality(groups) + 1]]
    /\ UNCHANGED <<group_members, faceVars, authVars>>

\* lines 45-52: the creator's membership with role_id=1, db.commit() at line 51
CreateGroupMember(k) ==
    /\ gr[k].pc = "created"
    /\ group_members' = group_members \cup
           {[id |-> k, user_id |-> gr[k].user, group_id |-> gr[k].group,
             role_id |-> SuperAdmin]}
    /\ gr' = GroupDone(k, 200)
    /\ UNCHANGED <<groups, faceVars, authVars>>

\* -------------------------------------------------------------- join_group
\* lines 61-66: the group of the invite code and the already-joined check
JoinGroup(k, usr, g) ==
    /\ GroupStart(k)
    /\ usr \in UserIds(users)
    /\ gr' = [gr EXCEPT ![k] =
                [@ EXCEPT !.op = "join", !.user = usr, !.group = g,
                          !.pc = IF g \in groups /\ FirstMember(group_members, usr, g) = NoMember
                                 THEN "joining" ELSE "done",
                          !.status = IF g \notin groups THEN 404
                                     ELSE IF FirstMember(group_members, usr, g) # NoMember
                                     THEN 400 ELSE 0]]
    /\ UNCHANGED <<groups, group_members, faceVars, authVars>>

\* lines 69-71: GroupMember(..., role_id = 5); db.commit()
JoinGroupCommit(k) ==
    /\ gr[k].pc = "joining"
    /\ group_members' = group_members \cup
           {[id |-> k, user_id |-> gr[k].user, group_id |-> gr[k].group,
             role_id |-> RestrictedViewer]}
    /\ gr' = GroupDone(k, 200)
    /\ UNCHANGED <<groups, faceVars, authVars>>

\* ------------------------------------------------------------- leave_group
\* lines 126-135: the group, the caller's membership, the owner check
LeaveGroup(k, usr, g) ==
    /\ GroupStart(k)
    /\ usr \in UserIds(users)
    /\ LET membership == FirstMember(group_members, usr, g)
           code == IF g \notin groups THEN 404
                   ELSE IF membership = NoMember THEN 400
                   ELSE IF membership.role_id = SuperAdmin THEN 403
                   ELSE 0
       IN  gr' = [gr EXCEPT ![k] =
                    [@ EXCEPT !.op = "leave", !.user = usr, !.group = g,
                              !.target = membership.id,
                              !.target_role = membership.role_id,
                              !.pc = IF code = 0 THEN "leaving" ELSE "done",
                              !.status = code]]
    /\ UNCHANGED <<groups, group_members, faceVars, authVars>>

\* lines 137-138: db.delete(membership); db.commit(): DELETE ... WHERE id;
\* a DELETE that finds no row only warns
LeaveGroupCommit(k) ==
    /\ gr[k].pc = "leaving"
    /\ group_members' = {m \in group_members : m.id # gr[k].target}
    /\ gr' = GroupDone(k, 200)
    /\ UNCHANGED <<groups, faceVars, authVars>>

\* ------------------------------------------ update_group_access_for_member
\* if role_id not in [2, 3, 4, 5]
RoleAllowed(role) == role \in {2, 3, 4, 5}

\* is_admin_or_higher, is_active_group and lines 177-191
UpdateAccess(k, usr, g, member_id, role) ==
    /\ GroupStart(k)
    /\ usr \in UserIds(users)
    /\ LET caller == FirstMember(group_members, usr, g)
           member == FirstMember(group_members, member_id, g)
           code == IF caller = NoMember THEN 403
                   ELSE IF caller.role_id \notin {SuperAdmin, Admin} THEN 403
                   ELSE IF g \notin groups THEN 404
                   ELSE IF member_id = usr THEN 400
                   ELSE IF ~RoleAllowed(role) THEN 400
                   ELSE IF member = NoMember THEN 404
                   ELSE IF member.role_id = SuperAdmin THEN 403
                   ELSE 0
       IN  gr' = [gr EXCEPT ![k] =
                    [@ EXCEPT !.op = "update", !.user = usr, !.group = g,
                              !.caller = caller.id,
                              !.target = member.id,
                              !.target_role = member.role_id,
                              !.role = role,
                              !.pc = IF code = 0 THEN "updating" ELSE "done",
                              !.status = code]]
    /\ UNCHANGED <<groups, group_members, faceVars, authVars>>

\* lines 194-195: member.role_id = role_id; db.commit().  No UPDATE is sent
\* when the value equals the loaded one; an UPDATE that finds no row raises
\* StaleDataError
UpdateAccessCommit(k) ==
    /\ gr[k].pc = "updating"
    /\ IF gr[k].role = gr[k].target_role
       THEN /\ gr' = GroupDone(k, 200)
            /\ UNCHANGED group_members
       ELSE IF ~MemberLive(group_members, gr[k].target)
       THEN /\ gr' = GroupDone(k, 500)
            /\ UNCHANGED group_members
       ELSE /\ group_members' = SetRole(group_members, gr[k].target, gr[k].role)
            /\ gr' = GroupDone(k, 200)
    /\ UNCHANGED <<groups, faceVars, authVars>>

\* ------------------------------------------------ transfer_group_ownership
\* is_super_admin and lines 208-217
TransferOwnership(k, usr, g, new_owner_id) ==
    /\ GroupStart(k)
    /\ usr \in UserIds(users)
    /\ LET previous_super_admin == FirstMember(group_members, usr, g)
           owner_to_be == FirstMember(group_members, new_owner_id, g)
           code == IF previous_super_admin = NoMember THEN 403
                   ELSE IF previous_super_admin.role_id # SuperAdmin THEN 403
                   ELSE IF new_owner_id = usr THEN 400
                   ELSE IF new_owner_id \notin UserIds(users) THEN 404
                   ELSE IF owner_to_be = NoMember THEN 404
                   ELSE 0
       IN  gr' = [gr EXCEPT ![k] =
                    [@ EXCEPT !.op = "transfer", !.user = usr, !.group = g,
                              !.caller = previous_super_admin.id,
                              !.target = owner_to_be.id,
                              !.target_role = owner_to_be.role_id,
                              !.pc = IF code = 0 THEN "transferring" ELSE "done",
                              !.status = code]]
    /\ UNCHANGED <<groups, group_members, faceVars, authVars>>

\* lines 219-222: owner_to_be.role_id = 1; previous_super_admin.role_id = 5;
\* db.commit(): both UPDATEs in one transaction, each WHERE id; the caller was
\* loaded with role 1, so its UPDATE is always sent
TransferOwnershipCommit(k) ==
    /\ gr[k].pc = "transferring"
    /\ IF \/ ~MemberLive(group_members, gr[k].caller)
          \/ (gr[k].target_role # SuperAdmin /\ ~MemberLive(group_members, gr[k].target))
       THEN /\ gr' = GroupDone(k, 500)
            /\ UNCHANGED group_members
       ELSE /\ group_members' =
                 SetRole(IF gr[k].target_role # SuperAdmin
                         THEN SetRole(group_members, gr[k].target, SuperAdmin)
                         ELSE group_members,
                         gr[k].caller, RestrictedViewer)
            /\ gr' = GroupDone(k, 200)
    /\ UNCHANGED <<groups, faceVars, authVars>>

RoleInputs == {SuperAdmin, Admin}

InitGroup == Tables(GroupUsers)

NextGroup ==
    \/ \E k \in GroupSlots, usr \in 1..GroupUsers : CreateGroup(k, usr)
    \/ \E k \in GroupSlots : CreateGroupMember(k)
    \/ \E k \in GroupSlots, usr \in 1..GroupUsers, g \in 1..MaxGroups : JoinGroup(k, usr, g)
    \/ \E k \in GroupSlots : JoinGroupCommit(k)
    \/ \E k \in GroupSlots, usr \in 1..GroupUsers, g \in 1..MaxGroups : LeaveGroup(k, usr, g)
    \/ \E k \in GroupSlots : LeaveGroupCommit(k)
    \/ \E k \in GroupSlots, usr \in 1..GroupUsers, g \in 1..MaxGroups,
          member_id \in 1..GroupUsers, role \in RoleInputs :
             UpdateAccess(k, usr, g, member_id, role)
    \/ \E k \in GroupSlots : UpdateAccessCommit(k)
    \/ \E k \in GroupSlots, usr \in 1..GroupUsers, g \in 1..MaxGroups,
          new_owner_id \in 1..GroupUsers :
             TransferOwnership(k, usr, g, new_owner_id)
    \/ \E k \in GroupSlots : TransferOwnershipCommit(k)

SpecGroup == InitGroup /\ [][NextGroup]_vars

\* ====================================================== logout and revocation
\* if token.startswith('Bearer '): token = token[7:]
StripBearer(header) == header.token

\* f"Bearer {token}", the value get_current_user looks up
WithBearer(token) == [bearer |-> TRUE, token |-> token]

\* utils/auth_utils.get_current_user, lines 32-38, for a token that verifies:
\* 401 when the prefixed token is stored, otherwise the request goes on
GetCurrentUser(rows, header) ==
    IF WithBearer(StripBearer(header)) \in rows THEN 401 ELSE 200

\* the tokens for which a logout has succeeded
LoggedOut == {au[k].header.token :
                 k \in {j \in AuthSlots : au[j].pc = "done" /\ au[j].op = "logout"
                                          /\ au[j].status = 200}}

AuthStart(k) ==
    /\ au[k].pc = "idle"
    /\ \A j \in AuthSlots : j < k => au[j].pc # "idle"

\* any route that depends on get_current_user, other than logout
Authenticated(k, header) ==
    /\ AuthStart(k)
    /\ au' = [au EXCEPT ![k] = [pc |-> "done", op |-> "request", header |-> header,
                               seen |-> LoggedOut,
                               status |-> GetCurrentUser(revoked_tokens, header)]]
    /\ UNCHANGED <<revoked_tokens, faceVars, groupVars>>

\* logout, lines 207-217: get_current_user, then the lookup of the header as sent
Logout(k, header) ==
    /\ AuthStart(k)
    /\ LET code == IF GetCurrentUser(revoked_tokens, header) = 401 THEN 401
                   ELSE IF header \in revoked_tokens THEN 400
                   ELSE 0
       IN  au' = [au EXCEPT ![k] = [pc |-> IF code = 0 THEN "checked" ELSE "done",
                                    op |-> "logout", header |-> header,
                                    seen |-> LoggedOut, status |-> code]]
    /\ UNCHANGED <<revoked_tokens, faceVars, groupVars>>

\* logout, lines 219-221: db.add(RevokedToken(token=auth_header)); db.commit();
\* the column is unique, a second row of the same value raises IntegrityError
LogoutCommit(k) ==
    /\ au[k].pc = "checked"
    /\ IF au[k].header \in revoked_tokens
       THEN /\ au' = [au EXCEPT ![k] = [@ EXCEPT !.pc = "done", !.status = 500]]
            /\ UNCHANGED revoked_tokens
       ELSE /\ revoked_tokens' = revoked_tokens \cup {au[k].header}
            /\ au' = [au EXCEPT ![k] = [@ EXCEPT !.pc = "done", !.status = 200]]
    /\ UNCHANGED <<faceVars, groupVars>>

NextAuth ==
    \/ \E k \in AuthSlots, header \in Headers : Authenticated(k, header)
    \/ \E k \in AuthSlots, header \in Headers : Logout(k, header)
    \/ \E k \in AuthSlots : LogoutCommit(k)

SpecAuth == Init /\ [][NextAuth]_vars

\* ------------------------------------------------- embeddings of two lengths
\* the detector of a deployment returns embeddings of one length; the faces
\* table outlives a change of the detector's model.  One face per image, of
\* the old or of the new length, one file per upload request
DimDetections == {<<E1>>, <<E4>>}

NextDim ==
    \/ \E u \in {v \in Uploads : up[v].pc = "idle"} :
          \E usr \in UserIds(users), d \in DimDetections :
             UploadPhoto(u, u, usr, TRUE, d, "none")
    \/ \E u \in Uploads : UploadFace(u, FALSE)
    \/ \E r \in {q \in Regs : reg[q].pc = "idle"} :
          \E d \in DimDetections : RegisterSave(r, NumUsers + r, TRUE, d)
    \/ \E r \in Regs : RegisterScan(r)
    \/ \E r \in Regs : RegisterCommit(r, "none")

SpecDim == Init /\ [][NextDim]_vars

\* ===================================================================== C1
\* the embeddings the finished requests ingested
UploadDone(u) == up[u].pc = "done" /\ up[u].status = 200

RegDone(r) == reg[r].pc = "done" /\ reg[r].status = 200

Quiescent ==
    /\ \A u \in Uploads : up[u].pc \in {"idle", "done"}
    /\ \A r \in Regs : reg[r].pc \in {"idle", "done"}

IngestedSet ==
    UNION {{up[u].faces[i] : i \in 1..Len(up[u].faces)} : u \in {v \in Uploads : UploadDone(v)}}
      \cup {reg[r].new_embedding : r \in {q \in Regs : RegDone(q)}}

IngestedCount ==
    LET RECURSIVE Sum(_)
        Sum(n) == IF n = 0 THEN 0
                  ELSE Sum(n - 1)
                         + (IF UploadDone(n) THEN Len(up[n].faces) ELSE 0)
                         + (IF RegDone(n) THEN 1 ELSE 0)
    IN  Sum(MaxRequests)

MutuallyMatching(S) == \A a \in S, b \in S : SimAtLeastThreshold(a, b)

\* C1: when every request has finished and the N >= 2 embeddings they
\* ingested, one per request and in whatever interleaving, are pairwise
\* similar at or above the threshold, the store holds exactly one Identity and
\* its sample_count is N.
C1_OneIdentityForMutualMatches ==
    ( /\ Quiescent
      /\ \A u \in Uploads : Len(up[u].faces) <= 1
      /\ IngestedCount >= 2
      /\ MutuallyMatching(IngestedSet) )
        => (Len(faces) = 1 /\ faces[1].embedding_count = IngestedCount)

\* ===================================================================== C2
\* C2: two uploads of one face each, e1 then e2 with similarity >= 0.6, the
\* first creating Identity I in a store where nothing matched: both photos are
\* linked to I, there is no second Identity, I.sample_count = 2 and
\* I.centroid = (e1 + e2) / 2.
C2_SecondUploadJoinsFirst ==
    \A u1 \in Uploads, u2 \in Uploads :
        ( /\ Started = 2 /\ removed.n = 0
          /\ UploadDone(u1) /\ UploadDone(u2)
          /\ Len(up[u1].faces) = 1 /\ Len(up[u2].faces) = 1
          /\ up[u1].seen = 0
          /\ up[u2].seen = 1
          /\ SimAtLeastThreshold(up[u1].faces[1], up[u2].faces[1]) )
        => ( /\ Len(faces) = 1
             /\ up[u1].linked = <<faces[1].id>>
             /\ up[u2].linked = <<faces[1].id>>
             /\ BagIn(PhotoFace(up[u1].photo, faces[1].id), photo_faces)
             /\ BagIn(PhotoFace(up[u2].photo, faces[1].id), photo_faces)
             /\ faces[1].embedding_count = 2
             /\ faces[1].embedding
                  = VecDiv(VecAdd(up[u1].faces[1], up[u2].faces[1]), 2) )

\* ===================================================================== C3
\* the upload request u processes its next face in this step
UploadFaceStep(u) == up[u].pc = "faces" /\ up'[u].idx = up[u].idx + 1

MatchesNone(embedding, rows) ==
    \A i \in 1..Len(rows) : ~SimAtLeastThreshold(embedding, rows[i].embedding)

\* C3: an uploaded face whose embedding is below the threshold against every
\* existing Identity creates exactly one new Identity, with that embedding as
\* centroid, sample_count 1 and no owner, and changes no existing Identity.
C3_NoMatchCreatesIdentity ==
    [][\A u \in Uploads :
         ( /\ UploadFaceStep(u)
           /\ MatchesNone(up[u].faces[up[u].idx], faces)
           /\ MatchesNone(up[u].faces[up[u].idx], up[u].all_faces) )
         => ( /\ Len(faces') = Len(faces) + 1
              /\ SubSeq(faces', 1, Len(faces)) = faces
              /\ faces'[Len(faces')].embedding = up[u].faces[up[u].idx]
              /\ faces'[Len(faces')].embedding_count = 1
              /\ faces'[Len(faces')].user_id = NULL )]_vars

\* ===================================================================== C4
\* the registration request r finishes in this step, at db.commit() or at an
\* error after the savepoint was opened
RegCommitStep(r) == reg[r].pc = "scanned" /\ reg'[r].pc = "done"

\* C4: every step of a registration request either commits the user row
\* together with an Identity owned by that user (the claimed or the new one),
\* or leaves the users table and the Identity store as they were; a request
\* that fails, whatever the error, has committed nothing.
C4_RegistrationAllOrNothing ==
    [][\A r \in Regs :
         reg'[r] # reg[r] =>
            IF reg'[r].pc = "done" /\ reg'[r].status = 200
            THEN /\ reg'[r].uid \notin UserIds(users)
                 /\ users' = users \cup {[id |-> reg'[r].uid, email |-> reg'[r].email]}
                 /\ faces' # faces
                 /\ \E i \in 1..Len(faces') :
                       /\ faces'[i].id = reg'[r].face
                       /\ faces'[i].user_id = reg'[r].uid
            ELSE users' = users /\ faces' = faces]_vars

\* one registration failed on an error that is no storage error, after its
\* identity step had begun, and left neither user row nor owned Identity;
\* another one committed both
C4_Witness ==
    \E r \in Regs, q \in Regs :
        /\ reg[r].pc = "done" /\ reg[r].error = "Exception"
        /\ reg[r].uid \notin UserIds(users)
        /\ \A i \in 1..Len(faces) : faces[i].user_id # reg[r].uid
        /\ RegDone(q)
        /\ reg[q].uid \in UserIds(users)
        /\ \E i \in 1..Len(faces) : faces[i].user_id = reg[q].uid

\* ===================================================================== C5
\* C5: a registration whose saved profile image shows zero faces or two or
\* more ends with status 400, adds no user row, creates or changes no
\* Identity, and its profile picture file is removed.
C5_WrongFaceCountAborts ==
    [][\A r \in Regs :
         (reg[r].pc = "saved" /\ reg[r].n_faces # 1 /\ reg'[r] # reg[r]) =>
            /\ reg'[r].pc = "done"
            /\ reg'[r].status = 400
            /\ users' = users
            /\ faces' = faces
            /\ r \in files
            /\ r \notin files']_vars

C5_Witness ==
    \E r \in Regs, q \in Regs :
        /\ reg[r].pc = "done" /\ reg[r].error = "face count" /\ reg[r].n_faces = 0
        /\ reg[q].pc = "done" /\ reg[q].error = "face count" /\ reg[q].n_faces = 2
        /\ reg[r].status = 400 /\ reg[q].status = 400
        /\ r \notin files /\ q \notin files

\* ===================================================================== C6
\* C6: a registration that commits and whose embedding matched an orphan
\* Identity writes, in that one step, the new user as the Identity's owner, the
\* merged centroid and the sample_count it read plus one (2 for an orphan that
\* counted 1), adds no Identity and changes no other one; no other step of a
\* registration changes the store.
C6_ClaimAndMergeTogether ==
    [][\A r \in Regs :
         /\ (reg'[r] # reg[r] /\ ~(RegCommitStep(r) /\ reg'[r].status = 200))
               => faces' = faces
         /\ ( /\ RegCommitStep(r)
              /\ reg'[r].status = 200
              /\ FirstMatch(reg[r].new_embedding, reg[r].orphan_faces) # 0 )
               => LET o == reg[r].orphan_faces[FirstMatch(reg[r].new_embedding,
                                                          reg[r].orphan_faces)]
                      c == IF o.embedding_count = NULL THEN 1 ELSE o.embedding_count
                  IN  /\ Len(faces') = Len(faces)
                      /\ \A i \in 1..Len(faces) :
                            IF faces[i].id = o.id
                            THEN /\ faces'[i].user_id = reg[r].uid
                                 /\ faces'[i].embedding_count = c + 1
                                 /\ faces'[i].embedding
                                      = VecDiv(VecAdd(VecScale(o.embedding, c),
                                                      reg[r].new_embedding), c + 1)
                            ELSE faces'[i] = faces[i]]_vars

\* a registration claimed an orphan that an upload had created: it is owned by
\* the new user, counts 2 and has exactly that one owner
C6_Witness ==
    \E r \in Regs :
        /\ RegDone(r)
        /\ reg[r].match_found
        /\ \E i \in 1..Len(faces) :
              /\ faces[i].id = reg[r].face
              /\ faces[i].user_id = reg[r].uid
              /\ faces[i].embedding_count = 2

C8_OwnerNeverRemoved ==
    [][\A i \in 1..Len(faces) :
         (faces[i].user_id # NULL /\ i <= Len(faces')) => faces'[i].user_id # NULL]_vars

\* ===================================================================== C9
\* C9: the owner of an Identity is written at most once: a registration that
\* commits does not change the owner of an Identity that already has one.
C9_OwnerSetAtMostOnce ==
    [][\A r \in Regs :
         RegCommitStep(r) =>
            \A i \in 1..Len(faces) :
               faces[i].user_id # NULL => faces'[i].user_id = faces[i].user_id]_vars

\* ==================================================================== C10
\* C10: after a registration created Identity I for user U and an upload that
\* read the store afterwards brought one face matching I, the store still holds
\* the one Identity, the link (P, I) exists, and get_my_photos answers U with
\* exactly the photos linked to I, which is P alone.
C10_MyPhotosAfterRegisterThenUpload ==
    \A r \in Regs, u \in Uploads :
        ( /\ Started = 2 /\ removed.n = 0
          /\ RegDone(r) /\ ~reg[r].match_found
          /\ UploadDone(u) /\ Len(up[u].faces) = 1 /\ up[u].seen = 1
          /\ SimAtLeastThreshold(up[u].faces[1], reg[r].new_embedding)
          /\ reg[r].uid \in UserIds(users) )
        => ( /\ Len(faces) = 1
             /\ BagIn(PhotoFace(up[u].photo, reg[r].face), photo_faces)
             /\ MyPhotos(faces, photo_faces, photos, reg[r].uid)
                  = [user |-> reg[r].uid, status |-> 200, photos |-> {up[u].photo}]
             /\ {up[u].photo}
                  = {photos[j].id : j \in {k \in 1..Len(photos) :
                        BagIn([photo_id |-> photos[k].id, face_id |-> reg[r].face],
                              photo_faces)}} )

C10_Witness ==
    \E r \in Regs, u \in Uploads :
        /\ Started = 2 /\ removed.n = 0
        /\ RegDone(r) /\ ~reg[r].match_found
        /\ UploadDone(u) /\ Len(up[u].faces) = 1 /\ up[u].seen = 1
        /\ up[u].faces[1] # reg[r].new_embedding
        /\ SimAtLeastThreshold(up[u].faces[1], reg[r].new_embedding)
        /\ reg[r].uid \in UserIds(users)
        /\ MyPhotos(faces, photo_faces, photos, reg[r].uid).photos = {up[u].photo}

\* ==================================================================== C11
\* the photos that have a link row to face face_id
PhotosLinkedTo(link_rows, photo_rows, face_id) ==
    {photo_rows[i].id : i \in {j \in 1..Len(photo_rows) :
        BagIn([photo_id |-> photo_rows[j].id, face_id |-> face_id], link_rows)}}

\* C11: no step of a registration inserts, deletes or changes a link row, and
\* right after a registration claimed an orphan Identity get_my_photos answers
\* the new user with every photo that was linked to that Identity before.
C11_ClaimKeepsLinks ==
    [][\A r \in Regs :
         /\ reg'[r] # reg[r] => photo_faces' = photo_faces
         /\ (RegCommitStep(r) /\ reg'[r].status = 200 /\ reg'[r].match_found)
               => MyPhotos(faces', photo_faces', photos', reg[r].uid)
                    = [user |-> reg[r].uid, status |-> 200,
                       photos |-> PhotosLinkedTo(photo_faces, photos, reg'[r].face)]]_vars

\* a registration claimed an Identity that two uploaded photos were linked to
C11_Witness ==
    \E r \in Regs :
        /\ RegDone(r) /\ reg[r].match_found
        /\ Cardinality(PhotosLinkedTo(photo_faces, photos, reg[r].face)) = 2
        /\ MyPhotos(faces, photo_faces, photos, reg[r].uid).photos
             = PhotosLinkedTo(photo_faces, photos, reg[r].face)

\* ==================================================================== C12
\* C12: an upload of a file with a good extension in which no face is detected
\* (and nothing failed) succeeds: its photo row is stored and returned, no
\* Identity is created or changed and no link row is inserted, then or later,
\* for that photo.
C12_NoFacePhotoIsStored ==
    [][\A u \in Uploads :
         /\ ( /\ up[u].pc = "idle" /\ up'[u].pc # "idle"
              /\ up'[u].fault = "none" /\ up'[u].faces = <<>> )
               => ( /\ up'[u].pc = "done" /\ up'[u].status = 200
                    /\ up'[u].photo \notin {photos[i].id : i \in 1..Len(photos)}
                    /\ photos' = Append(photos, [id |-> up'[u].photo,
                                                 uploader_id |-> up'[u].user])
                    /\ faces' = faces
                    /\ photo_faces' = photo_faces )
         /\ (up[u].pc = "done" /\ up[u].status = 200 /\ up[u].faces = <<>>)
               => \A l \in BagToSet(photo_faces') : l.photo_id # up[u].photo]_vars

\* a photo without faces was stored while the store held an Identity
C12_Witness ==
    \E u \in Uploads :
        /\ UploadDone(u) /\ up[u].faces = <<>> /\ up[u].fault = "none"
        /\ Live(photos, up[u].photo)
        /\ Len(faces) > 0 /\ up[u].seen > 0
        /\ \A l \in BagToSet(photo_faces) : l.photo_id # up[u].photo

\* ==================================================================== C13
\* the file u of a request ends in failure in this step
UploadFails(u) ==
    up[u].pc # "done" /\ up'[u].pc = "done" /\ up'[u].status \in {400, 500}

\* C13: when a file of a batch that is not its first fails (bad extension,
\* storage error, detection error, or an error while its faces are processed),
\* the step removes or changes nothing the earlier files committed: every photo
\* row and every link row stays as it was, and every Identity stays with its
\* id, owner and count, its centroid changed at most by a merge the failing
\* file itself committed before it failed.
C13_EarlierFilesStay ==
    [][\A u \in Uploads :
         (UploadFails(u) /\ up'[u].request # u) =>
            /\ Len(photos') >= Len(photos)
            /\ SubSeq(photos', 1, Len(photos)) = photos
            /\ photo_faces' = photo_faces
            /\ Len(faces') >= Len(faces)
            /\ \A i \in 1..Len(faces) :
                  \/ faces'[i] = faces[i]
                  \/ /\ up[u].pc = "faces"
                     /\ [faces'[i] EXCEPT !.embedding = faces[i].embedding] = faces[i]
                     /\ faces'[i].embedding
                          = MergeUpload(up[u].faces[up[u].idx], faces[i].embedding)]_vars

\* the second file of a request failed after the first had stored its photo,
\* an Identity and a link, and all three are in the store
C13_Witness ==
    \E u \in Uploads, v \in Uploads :
        /\ v < u /\ up[v].request = v /\ up[u].request = v
        /\ UploadDone(v) /\ Len(up[v].linked) = 1
        /\ up[u].pc = "done" /\ up[u].status = 400
        /\ Live(photos, up[v].photo)
        /\ Live(faces, up[v].linked[1])
        /\ BagIn(PhotoFace(up[v].photo, up[v].linked[1]), photo_faces)

\* ==================================================================== C14
\* C14: when a registration that wrote its profile picture has finished in
\* failure, the file no longer exists; a file of a finished registration is on
\* disk only if that registration committed its user row.
C14_FailedRegistrationLeavesNoFile ==
    \A r \in Regs :
        (reg[r].pc = "done" /\ r \in files) => reg[r].status = 200

\* ==================================================================== C15
\* the Identities owned by user uid
OwnedBy(rows, uid) == {i \in 1..Len(rows) : rows[i].user_id = uid}

\* C15: in every reachable state each user id owns at most one Identity.
C15_AtMostOneIdentityPerUser ==
    \A uid \in 1..(NumUsers + MaxRequests) : Cardinality(OwnedBy(faces, uid)) <= 1

\* a registration claimed an orphan while a second orphan similar to its
\* profile embedding was in the store; the user owns one Identity and the
\* second orphan is still an orphan
C15_Witness ==
    \E r \in Regs :
        /\ RegDone(r) /\ reg[r].match_found
        /\ Cardinality(OwnedBy(faces, reg[r].uid)) = 1
        /\ \E i \in 1..Len(faces) :
              /\ faces[i].user_id = NULL
              /\ SimAtLeastThreshold(reg[r].new_embedding, faces[i].embedding)

\* ==================================================================== C16
\* C16: a step removes an Identity only together with the account of the user
\* who owns it: the removed row had an owner, and that user is deleted in the
\* same step.  So no upload, registration or photo deletion removes an
\* Identity, and an orphan is never removed.
C16_IdentityRemovedOnlyWithOwner ==
    [][\A i \in 1..Len(faces) :
         ~Live(faces', faces[i].id) =>
            /\ faces[i].user_id # NULL
            /\ faces[i].user_id \in UserIds(users)
            /\ faces[i].user_id \notin UserIds(users')]_vars

\* an account was deleted together with its Identity, and an orphan Identity
\* with its link is in the store
C16_Witness ==
    /\ removed.faces # {}
    /\ \E i \in 1..Len(faces) :
          /\ faces[i].user_id = NULL
          /\ \E l \in BagToSet(photo_faces) : l.face_id = faces[i].id

\* ==================================================================== C17
\* the row `after` is the row `before` with embedding e merged as a running
\* mean: centroid (old * count + e) / (count + 1) and count + 1, a count never
\* written being read as 1
RunningMean(before, after, e) ==
    /\ after.embedding = MergeRegister(before.embedding,
                                       CountOrOne(before.embedding_count), e)
    /\ after.embedding_count = CountOrOne(before.embedding_count) + 1

\* C17: on every match, in the upload path and in the registration path
\* alike, the matched Identity's centroid becomes (old * count + e) / (count + 1)
\* and its count grows by one.
C17_RunningMeanOnEveryMatch ==
    [][/\ \A u \in Uploads :
            (UploadFaceStep(u) /\ Live(faces, up'[u].linked[Len(up'[u].linked)]))
               => LET face_id == up'[u].linked[Len(up'[u].linked)]
                  IN  RunningMean(RowOf(faces, face_id), RowOf(faces', face_id),
                                  up[u].faces[up[u].idx])
       /\ \A r \in Regs :
            (RegCommitStep(r) /\ reg'[r].status = 200 /\ reg'[r].match_found)
               => RunningMean(RowOf(faces, reg'[r].face), RowOf(faces', reg'[r].face),
                              reg[r].new_embedding)]_vars

\* ==================================================================== C18
\* the positions of the candidates whose similarity to e is at least 0.6
Similar(e, candidates) ==
    {i \in 1..Len(candidates) : SimAtLeastThreshold(e, candidates[i].embedding)}

\* one embedding was reconciled in the step from rows to rows2 against the
\* candidates read: with a similar candidate the Identity face_id is the
\* earliest similar one and no other row differs; with none, one row with a
\* fresh id and centroid e is appended and no row differs
OneIdentityTouched(rows, rows2, e, candidates, face_id) ==
    IF Similar(e, candidates) = {}
    THEN /\ Len(rows2) = Len(rows) + 1
         /\ SubSeq(rows2, 1, Len(rows)) = rows
         /\ rows2[Len(rows2)].id = face_id
         /\ rows2[Len(rows2)].embedding = e
         /\ ~Live(rows, face_id)
    ELSE /\ \E i \in Similar(e, candidates) :
               /\ \A j \in Similar(e, candidates) : i <= j
               /\ candidates[i].id = face_id
         /\ Len(rows2) = Len(rows)
         /\ \A j \in 1..Len(rows) : rows[j].id # face_id => rows2[j] = rows[j]

\* C18: each embedding is merged into the first candidate, in the order the
\* store returned them, whose similarity is at least 0.6 (0.6 itself
\* included), also when a later candidate is more similar; one Identity is
\* merged into or created per embedding and every other one stays unchanged.
\* Upload compares against the rows it read for the file, registration against
\* the orphans it read.
C18_FirstMatchInclusive ==
    [][/\ \A u \in Uploads :
            UploadFaceStep(u) =>
               OneIdentityTouched(faces, faces', up[u].faces[up[u].idx],
                   IF up[u].expired THEN Refresh(up[u].all_faces, faces)
                   ELSE up[u].all_faces,
                   up'[u].linked[Len(up'[u].linked)])
       /\ \A r \in Regs :
            (RegCommitStep(r) /\ reg'[r].status = 200) =>
               OneIdentityTouched(faces, faces', reg[r].new_embedding,
                                  reg[r].orphan_faces, reg'[r].face)]_vars

\* an uploaded face E2 was merged into an Identity whose centroid was E3,
\* exactly 0.6 similar, although an Identity with centroid E2 itself comes
\* later in the store and is unchanged
C18_Witness ==
    \E u \in Uploads :
        /\ UploadDone(u) /\ up[u].faces = <<E2>>
        /\ \E i \in 1..Len(faces), j \in 1..Len(faces) :
              /\ i < j
              /\ up[u].linked = <<faces[i].id>>
              /\ faces[i].embedding = MergeUpload(E2, E3)
              /\ faces[j].embedding = E2

\* ==================================================================== C19
\* the positions of the rows that are similar to e and have no owner
SimilarOrphans(e, rows) == {i \in Similar(e, rows) : rows[i].user_id = NULL}

\* the positions of the rows that are similar to e and have an owner
SimilarClaimed(e, rows) == {i \in Similar(e, rows) : rows[i].user_id # NULL}

\* C19: registration compares only against Identities without owner, upload
\* against all.  A registration whose embedding is similar to a Claimed
\* Identity and to none of the orphans it read appends a new Identity owned by
\* the new user and leaves every existing row as it was.  An upload step whose
\* embedding is similar to a Claimed Identity and to no orphan among the rows
\* it compares with merges into a Claimed Identity, whose owner and count stay.
C19_RegistrationSeesOrphansOnly ==
    [][/\ \A r \in Regs :
            ( /\ RegCommitStep(r) /\ reg'[r].status = 200
              /\ SimilarOrphans(reg[r].new_embedding, reg[r].orphan_faces) = {}
              /\ SimilarClaimed(reg[r].new_embedding, faces) # {} )
            => /\ Len(faces') = Len(faces) + 1
               /\ SubSeq(faces', 1, Len(faces)) = faces
               /\ faces'[Len(faces')].user_id = reg[r].uid
               /\ faces'[Len(faces')].embedding = reg[r].new_embedding
       /\ \A u \in Uploads :
            LET e == up[u].faces[up[u].idx]
                candidates == IF up[u].expired THEN Refresh(up[u].all_faces, faces)
                              ELSE up[u].all_faces
            IN  ( /\ UploadFaceStep(u)
                  /\ SimilarOrphans(e, candidates) = {}
                  /\ SimilarClaimed(e, candidates) # {} )
                => LET face_id == up'[u].linked[Len(up'[u].linked)]
                   IN  /\ Len(faces') = Len(faces)
                       /\ \E i \in SimilarClaimed(e, candidates) :
                             /\ candidates[i].id = face_id
                             /\ RowOf(faces', face_id).embedding
                                  = MergeUpload(e, candidates[i].embedding)
                       /\ RowOf(faces', face_id).user_id = RowOf(faces, face_id).user_id
                       /\ RowOf(faces', face_id).embedding_count
                            = RowOf(faces, face_id).embedding_count]_vars

\* two registrations with similar profile embeddings each created an Identity
\* of their own, and an upload of the second one's embedding is linked to the
\* first one's Identity, which still belongs to the first user
C19_Witness ==
    \E r1 \in Regs, r2 \in Regs, u \in Uploads :
        /\ r1 # r2 /\ RegDone(r1) /\ RegDone(r2)
        /\ ~reg[r1].match_found /\ ~reg[r2].match_found
        /\ SimAtLeastThreshold(reg[r2].new_embedding, reg[r1].new_embedding)
        /\ Len(faces) = 2
        /\ faces[1].id = reg[r1].face /\ faces[1].user_id = reg[r1].uid
        /\ faces[2].id = reg[r2].face /\ faces[2].user_id = reg[r2].uid
        /\ faces[2].embedding = reg[r2].new_embedding
        /\ UploadDone(u) /\ up[u].faces = <<reg[r2].new_embedding>>
        /\ up[u].linked = <<reg[r1].face>>

\* ==================================================================== C20
\* the number of positions of seq that hold x
Occurrences(seq, x) == Cardinality({i \in 1..Len(seq) : seq[i] = x})

\* the number of link rows of photo photo_id
LinkCount(link_rows, photo_id) ==
    BagCardinality([l \in {x \in DOMAIN link_rows : x.photo_id = photo_id}
                      |-> link_rows[l]])

\* C20: each processed face inserts one link row from the photo to the
\* Identity the face was merged into or that was created for it, whatever
\* rows exist; so a completed upload of a photo with k faces, while the photo
\* exists, has exactly k link rows, as many to each Identity as faces of the
\* photo went to it (two when two faces matched the same Identity).
C20_OneLinkPerFace ==
    /\ [](\A u \in Uploads :
            (UploadDone(u) /\ Live(photos, up[u].photo)) =>
               /\ LinkCount(photo_faces, up[u].photo) = Len(up[u].faces)
               /\ \A l \in BagToSet(photo_faces) :
                     l.photo_id = up[u].photo =>
                        CopiesIn(l, photo_faces) = Occurrences(up[u].linked, l.face_id))
    /\ [][\A u \in Uploads :
            UploadFaceStep(u) =>
               LET e == up[u].faces[up[u].idx]
                   candidates == IF up[u].expired THEN Refresh(up[u].all_faces, faces)
                                 ELSE up[u].all_faces
                   face_id == IF Similar(e, candidates) = {}
                              THEN faces'[Len(faces')].id
                              ELSE candidates[CHOOSE i \in Similar(e, candidates) :
                                         \A j \in Similar(e, candidates) : i <= j].id
               IN  /\ photo_faces' = photo_faces (+) SetToBag({PhotoFace(up[u].photo, face_id)})
                   /\ up'[u].linked = Append(up[u].linked, face_id)]_vars

\* a completed upload of a photo with two faces that both matched the same
\* Identity: two equal link rows
C20_Witness ==
    \E u \in Uploads :
        /\ UploadDone(u) /\ Len(up[u].faces) = 2
        /\ up[u].linked[1] = up[u].linked[2]
        /\ CopiesIn(PhotoFace(up[u].photo, up[u].linked[1]), photo_faces) = 2
        /\ LinkCount(photo_faces, up[u].photo) = 2

\* ==================================================================== C21
\* C21: in every reachable state every stored Identity has a count that is
\* set and is at least 1, whether an upload or a registration created it.
C21_CountAtLeastOne ==
    \A i \in 1..Len(faces) :
        faces[i].embedding_count # NULL /\ faces[i].embedding_count >= 1

\* ==================================================================== C22
\* the stored centroids all have length D
StoredDim(rows, D) == rows # <<>> /\ \A i \in 1..Len(rows) : Dim(rows[i].embedding) = D

\* C22: while the stored centroids have one length D, the ingestion of an
\* embedding of another length, by an upload or by a registration, ends the
\* request with an error and changes no Identity and adds none.
C22_OtherLengthRefused ==
    [][/\ \A u \in Uploads :
            ( /\ up[u].pc = "faces" /\ up'[u] # up[u]
              /\ \E D \in 1..3 : StoredDim(faces, D) /\ Dim(up[u].faces[up[u].idx]) # D )
            => (faces' = faces /\ up'[u].pc = "done" /\ up'[u].status >= 400)
       /\ \A r \in Regs :
            ( /\ reg[r].pc = "scanned" /\ reg'[r] # reg[r]
              /\ \E D \in 1..3 : StoredDim(faces, D) /\ Dim(reg[r].new_embedding) # D )
            => (faces' = faces /\ reg'[r].pc = "done" /\ reg'[r].status >= 400)]_vars

\* ==================================================================== C23
\* the registration holds its write transaction: the user row is flushed
\* inside "with db.begin_nested()" and not yet committed
InWriteTransaction(q) == q.pc = "scanned"

\* face detection runs in this step of registration r / of upload file u
RegExtracts(r) == reg[r].pc = "idle" /\ reg'[r].pc = "saved"

UploadExtracts(u) == up[u].pc = "idle" /\ up'[u].pc # "idle" /\ up'[u].fault = "none"

\* C23: face detection for a request is finished before the request's
\* compare/merge/persist step on the Identity store begins and never runs
\* inside it.  The step in which a registration detects opens no write
\* transaction and writes nothing; the step in which an upload detects writes
\* no Identity and no link; once the store step has begun (the registration
\* holds its transaction, the upload processes its faces) the detected
\* embeddings are fixed.
C23_ExtractionBeforeStoreStep ==
    [][/\ \A r \in Regs :
            /\ RegExtracts(r) =>
                  /\ ~InWriteTransaction(reg'[r])
                  /\ reg'[r].uid = NULL
                  /\ users' = users /\ faces' = faces /\ photo_faces' = photo_faces
            /\ reg[r].pc \in {"saved", "scanned"} =>
                  /\ reg'[r].new_embedding = reg[r].new_embedding
                  /\ reg'[r].n_faces = reg[r].n_faces
            /\ InWriteTransaction(reg'[r]) => reg[r].pc \in {"saved", "scanned"}
       /\ \A u \in Uploads :
            /\ UploadExtracts(u) => (faces' = faces /\ photo_faces' = photo_faces)
            /\ up[u].pc = "faces" => up'[u].faces = up[u].faces
            /\ faces' # faces => ~UploadExtracts(u)]_vars

\* a registration holds its write transaction with its embedding detected
\* while an upload is between the two faces of its photo
C23_Witness ==
    /\ \E r \in Regs :
          /\ InWriteTransaction(reg[r])
          /\ reg[r].new_embedding \in Embeddings
    /\ \E u \in Uploads :
          /\ up[u].pc = "faces" /\ Len(up[u].faces) = 2 /\ up[u].idx = 2

\* ==================================================================== C24
\* C24: no merge is lost: whenever a request writes the merge of its
\* embedding into an Identity, the centroid, count and owner it read for that
\* Identity are the committed ones, so the write builds on every merge
\* committed before it and overwrites none.
C24_NoLostMerge ==
    [][/\ \A u \in Uploads :
            (UploadFaceStep(u) /\ Live(faces, up'[u].linked[Len(up'[u].linked)]))
               => LET face_id == up'[u].linked[Len(up'[u].linked)]
                      candidates == IF up[u].expired
                                    THEN Refresh(up[u].all_faces, faces)
                                    ELSE up[u].all_faces
                  IN  RowOf(candidates, face_id) = RowOf(faces, face_id)
       /\ \A r \in Regs :
            (RegCommitStep(r) /\ reg'[r].status = 200 /\ reg'[r].match_found)
               => RowOf(reg[r].orphan_faces, reg'[r].face) = RowOf(faces, reg'[r].face)]_vars

\* ==================================================================== C25
\* the number of link rows that point at Identity face_id
LinksTo(link_rows, face_id) ==
    BagCardinality([l \in {x \in DOMAIN link_rows : x.face_id = face_id}
                      |-> link_rows[l]])

\* C25: when only uploads have run and all of them are completed, the count
\* of every Identity is set and equals the number of link rows pointing at it.
C25_CountEqualsLinks ==
    ( /\ \A r \in Regs : reg[r].pc = "idle"
      /\ removed.n = 0
      /\ \A u \in Uploads : up[u].pc = "idle" \/ UploadDone(u) )
    => \A i \in 1..Len(faces) :
          /\ faces[i].embedding_count # NULL
          /\ faces[i].embedding_count = LinksTo(photo_faces, faces[i].id)

\* ==================================================================== C26
\* C26: a photo with two faces that are similar to each other, uploaded when
\* no Identity exists and as the only request, yields one Identity with two
\* links: the Identity created for the first face is matched by the second.
C26_EarlierFaceIsCandidate ==
    \A u \in Uploads :
        ( /\ UploadDone(u) /\ Started = 1 /\ removed.n = 0
          /\ Len(up[u].faces) = 2
          /\ SimAtLeastThreshold(up[u].faces[1], up[u].faces[2]) )
        => /\ Len(faces) = 1
           /\ LinksTo(photo_faces, faces[1].id) = 2

\* ==================================================================== C27
\* C27: in every state, every user whose registration committed and whose
\* account still exists owns exactly one Identity, whatever the interleaving.
C27_RegisteredUserKeepsIdentity ==
    \A r \in Regs :
        (RegDone(r) /\ reg[r].uid \in UserIds(users))
           => Cardinality(OwnedBy(faces, reg[r].uid)) = 1

\* ==================================================================== C28
\* C28: in every reachable state every link row names a photo and an Identity
\* that exist, and every Identity with an owner names a user that exists.
\* A step that deletes an account removes the Identities of that user and the
\* links to them.
C28_ReferentialIntegrity ==
    /\ [](/\ \A l \in BagToSet(photo_faces) :
                Live(photos, l.photo_id) /\ Live(faces, l.face_id)
          /\ \A i \in 1..Len(faces) :
                faces[i].user_id # NULL => faces[i].user_id \in UserIds(users))
    /\ [][\A usr \in UserIds(users) \ UserIds(users') :
            \A i \in 1..Len(faces) :
               faces[i].user_id = usr =>
                  /\ ~Live(faces', faces[i].id)
                  /\ LinksTo(photo_faces', faces[i].id) = 0]_vars

\* ==================================================================== C29
\* the memberships of group g with the super-admin role
SuperAdmins(rows, g) == {m \in rows : m.group_id = g /\ m.role_id = SuperAdmin}

\* C29: in every state reached through completed create, join, leave, role
\* update and ownership transfer requests (none of them in progress), every
\* existing group has exactly one member with the super-admin role.
C29_OneSuperAdmin ==
    (\A k \in GroupSlots : gr[k].pc \in {"idle", "done"})
        => \A g \in groups : Cardinality(SuperAdmins(group_members, g)) = 1

\* ==================================================================== C30
\* C30: a request that presents a token after a logout with that token has
\* succeeded is rejected, whichever way the header carried the token at the
\* logout and at the later request (a later logout with 400 or 401).
C30_LoggedOutTokenRejected ==
    \A k \in AuthSlots :
        (au[k].pc = "done" /\ au[k].header.token \in au[k].seen)
            => au[k].status \in {400, 401}

====
